---- MODULE Spec2Model ----
(***************************************************************************)
(* Model of the URL shortener's handlers (src/src/handler.rs) over the two *)
(* redb tables of src/src/database.rs: the primary table TABLE_URLS, keyed *)
(* by identifier, and the secondary index TABLE_REF_INDEX, keyed by        *)
(* "{ref_id}:{timestamp_micros}".                                          *)
(*                                                                         *)
(* Strings are sequences of byte codes, so that key formatting and redb's  *)
(* byte-lexicographic key order are computed, not assumed.  An             *)
(* Option<String> is <<>> (None) or <<s>> (Some(s)).                       *)
(*                                                                         *)
(* redb admits one write transaction at a time (begin_write blocks) and    *)
(* gives every read transaction the last committed state: urls and index   *)
(* are the committed tables, wtxn is the open write transaction with its   *)
(* uncommitted working copy of both tables.                                *)
(***************************************************************************)
EXTENDS Integers, Sequences, FiniteSets, TLC

VARIABLES
    urls,      \* committed TABLE_URLS: identifier -> UrlRecord
    index,     \* committed TABLE_REF_INDEX: composite key -> UrlRecord
    wtxn,      \* the open write transaction (holder, working tables) or NoTxn
    clock,     \* what Utc::now().timestamp_micros() returns at this instant
    pc,        \* per request task: where its handler stands
    req,       \* per request task: the request it is serving
    out,       \* the response sent by the last step (NoOut if it sent none)
    created    \* history: per identifier, the records of the creates answered 201
               \* since the identifier was last deleted

vars == <<urls, index, wtxn, clock, pc, req, out, created>>

----------------------------------------------------------------------------
(* Byte codes of the characters the handlers format and compare.           *)

Colon == 58
LBrace == 123
Slash == 47
Digit0 == 48

None == <<>>
Some(v) == <<v>>
IsSome(o) == o # <<>>
Unwrap(o) == o[1]

(* Rust's Ord for str: byte-wise lexicographic comparison, the order redb  *)
(* keeps &str keys in.                                                     *)
StrLess(s, t) ==
    \E i \in 1..Len(t) :
        /\ i - 1 <= Len(s)
        /\ \A j \in 1..(i - 1) : s[j] = t[j]
        /\ (i = Len(s) + 1 \/ (i <= Len(s) /\ s[i] < t[i]))

StrLeq(s, t) == s = t \/ StrLess(s, t)

(* Display of an i64 >= 0: decimal digits, no padding.                     *)
RECURSIVE Decimal(_)
Decimal(n) ==
    IF n < 10 THEN <<Digit0 + n>>
    ELSE Decimal(n \div 10) \o <<Digit0 + (n % 10)>>

----------------------------------------------------------------------------
(* Tables: functions from keys to values; insert overwrites, remove of an  *)
(* absent key changes nothing.                                             *)

EmptyTable == <<>>

Has(t, k) == k \in DOMAIN t

Insert(t, k, v) == [x \in (DOMAIN t) \cup {k} |-> IF x = k THEN v ELSE t[x]]

Remove(t, k) == [x \in (DOMAIN t) \ {k} |-> t[x]]

(* The keys of S in ascending byte order.                                  *)
RECURSIVE SortKeysDescending(_)
SortKeysDescending(S) ==
    IF S = {} THEN <<>>
    ELSE LET m == CHOOSE k \in S : \A o \in S : StrLeq(o, k)
         IN <<m>> \o SortKeysDescending(S \ {m})

RECURSIVE SortKeys(_)
SortKeys(S) ==
    IF S = {} THEN <<>>
    ELSE LET m == CHOOSE k \in S : \A o \in S : StrLeq(k, o)
         IN <<m>> \o SortKeys(S \ {m})

(* table.range(lo..hi): the values under the keys lo <= k < hi, ascending. *)
RangeKeys(t, lo, hi) == SortKeys({k \in DOMAIN t : StrLeq(lo, k) /\ StrLess(k, hi)})

Range(t, lo, hi) ==
    LET ks == RangeKeys(t, lo, hi) IN [i \in 1..Len(ks) |-> t[ks[i]]]

(* table.iter(): every value, ascending by key.                            *)
IterOwned(t) ==
    LET ks == SortKeys({k \in DOMAIN t : t[k].ref_id # <<>>})
    IN [i \in 1..Len(ks) |-> t[ks[i]]]

Iter(t) ==
    LET ks == SortKeys(DOMAIN t) IN [i \in 1..Len(ks) |-> t[ks[i]]]

(* Iterator::skip(n).take(m) on a sequence.                                *)
Min(a, b) == IF a < b THEN a ELSE b

SkipOnly(s, n, m) ==
    IF n >= Len(s) THEN <<>>
    ELSE SubSeq(s, n + 1, Len(s))

SkipTake(s, n, m) ==
    IF n >= Len(s) THEN <<>>
    ELSE SubSeq(s, n + 1, Min(Len(s), n + m))

----------------------------------------------------------------------------
(* The record model (src/src/model.rs) and what the handlers compute.      *)

(* format!("{}:{}", base_url, port): the configured domain, here "d".      *)
Domain == <<100>>

UrlRecordSharedShortUrl(id, url, ref_id, now) ==
    [id |-> id,
     original_url |-> url,
     short_url |-> Domain \o <<Slash>>,
     ref_id |-> ref_id,
     created_at |-> now,
     clicks |-> 0]

UrlRecord(id, url, ref_id, now) ==
    [id |-> id,
     original_url |-> url,
     short_url |-> Domain \o <<Slash>> \o id,
     ref_id |-> ref_id,
     created_at |-> now,
     clicks |-> 0]

(* rng.sample_iter(&Alphanumeric).take(6).map(char::from).collect(): each  *)
(* sample is an index 0..61 into "A".."Z", "a".."z", "0".."9"; the first   *)
(* six samples make the identifier.                                        *)
GenLen == 6

AlphanumericChar(n) ==
    IF n < 26 THEN 65 + n
    ELSE IF n < 52 THEN 97 + (n - 26)
    ELSE 48 + (n - 52)

Generate(samples) == [i \in 1..GenLen |-> AlphanumericChar(samples[i])]

(* payload.custom_id.filter(|id| !id.is_empty()), then the custom id or a  *)
(* generated one.                                                          *)
IdToUseUnfiltered(custom_id, gen) ==
    IF IsSome(custom_id) THEN Unwrap(custom_id) ELSE gen

IdToUse(custom_id, gen) ==
    IF IsSome(custom_id) /\ Unwrap(custom_id) # <<>> THEN Unwrap(custom_id) ELSE gen

(* table_main.get(id).is_some()                                            *)
IdTakenNever(t, id) == FALSE

IdTakenByShortUrl(t, id) == Has(t, Domain \o <<Slash>> \o id)

IdTaken(t, id) == Has(t, id)

(* format!("{}:{}", ref_id, created_at.timestamp_micros())                 *)
IndexKey(ref, ts) == ref \o <<Colon>> \o Decimal(ts)

RecordKey(r) == IndexKey(Unwrap(r.ref_id), r.created_at)

(* The range bounds of an owner-scoped list.                               *)
StartKey(ref) == ref \o <<Colon>>

EndKey(ref) == ref \o <<Colon, LBrace>>

(* params.page.unwrap_or(1).max(1) and params.limit.unwrap_or(10).min(100) *)
DefaultPage == 1
DefaultLimit == 10
LimitCap == 100

Max(a, b) == IF a > b THEN a ELSE b

EffPage(page) == Max(IF IsSome(page) THEN Unwrap(page) ELSE DefaultPage, 1)

EffLimit(limit) == Min(IF IsSome(limit) THEN Unwrap(limit) ELSE DefaultLimit, LimitCap)

(* page, limit and offset are usize.  The width of the machine word is     *)
(* scaled down so that the products stay within the checker's integers;    *)
(* a request can carry any page in 0..UsizeMax.                            *)
UsizeBits == 16

UsizeRange == 2 ^ UsizeBits

UsizeMax == UsizeRange - 1

(* a * b on usize: the product exceeds the word when it reaches UsizeRange; *)
(* a build without overflow checks keeps the low bits.                     *)
MulOverflows(a, b) == a * b >= UsizeRange

WrappingMul(a, b) == (a * b) % UsizeRange

(* let offset = (page - 1) * limit;                                        *)
Offset(page, limit) == WrappingMul(EffPage(page) - 1, EffLimit(limit))

(* What a read transaction sees: the last committed state.                 *)
ReadViewDirty ==
    IF wtxn.holder = "none" THEN [urls |-> urls, index |-> index]
    ELSE [urls |-> wtxn.urls, index |-> wtxn.index]

ReadView == [urls |-> urls, index |-> index]

(* serde_json::from_str::<UrlRecord>(value) is Ok: a stored value that     *)
(* this service wrote always is; one whose clicks is not a u64 is not.     *)
Deserializes(v) == v.clicks >= 0

(* .filter_map(|res| ... from_str(value).ok()): the values that            *)
(* deserialize, in order.                                                  *)
FilterMap(s) == SelectSeq(s, Deserializes)

(* The data of a list response, computed on a read view: the range or the  *)
(* whole table, skip(offset), take(limit), then filter_map.                *)
ListResult(view, ref_id, page, limit) ==
    IF IsSome(ref_id)
    THEN FilterMap(SkipTake(Range(view.index, StartKey(Unwrap(ref_id)),
                                  EndKey(Unwrap(ref_id))),
                            Offset(page, limit), EffLimit(limit)))
    ELSE FilterMap(SkipTake(Iter(view.urls), Offset(page, limit), EffLimit(limit)))

(* The ownership check of delete: TRUE when the delete may proceed.        *)
OwnershipOkUnowned(record, ref_id) ==
    IF IsSome(ref_id) /\ IsSome(record.ref_id)
    THEN Unwrap(record.ref_id) = Unwrap(ref_id)
    ELSE TRUE

OwnershipOkOwnerOnly(record, ref_id) ==
    IF IsSome(record.ref_id)
    THEN IsSome(ref_id) /\ Unwrap(record.ref_id) = Unwrap(ref_id)
    ELSE TRUE

OwnershipOk(record, ref_id) ==
    IF IsSome(ref_id)
    THEN IsSome(record.ref_id) /\ Unwrap(record.ref_id) = Unwrap(ref_id)
    ELSE TRUE

----------------------------------------------------------------------------
(* State.                                                                  *)

NoTxn == [holder |-> "none", urls |-> EmptyTable, index |-> EmptyTable]

NoRecord == UrlRecord(<<>>, <<>>, None, 0)

NoReq == [op |-> "none", id |-> <<>>, ref_id |-> None, record |-> NoRecord]

NoOut == [op |-> "none", status |-> 0, id |-> <<>>, ref_id |-> None,
          record |-> NoRecord, location |-> <<>>,
          page |-> 0, limit |-> 0, total_fetched |-> 0, data |-> <<>>]

(* The clock reading, in microseconds, when the service starts.  The       *)
(* readings it advances to are an input (times); between 9 and 10 the      *)
(* decimal rendering of the timestamp grows a digit.                       *)
ClockStart == 9

Procs == {"t1", "t2"}

Init ==
    /\ urls = EmptyTable
    /\ index = EmptyTable
    /\ wtxn = NoTxn
    /\ clock = ClockStart
    /\ pc = [p \in Procs |-> "idle"]
    /\ req = [p \in Procs |-> NoReq]
    /\ out = NoOut
    /\ created = EmptyTable

Respond(op, status, id, ref_id, record) ==
    [NoOut EXCEPT !.op = op, !.status = status, !.id = id, !.ref_id = ref_id,
                  !.record = record]

----------------------------------------------------------------------------
(* create_short_url                                                        *)

(* The end of a write transaction: write_txn.commit() consumes it and a    *)
(* return or an unwinding panic drops it; either way redb frees the write  *)
(* lock and the next begin_write is granted.                               *)
ReleaseLeaked(t) == [t EXCEPT !.holder = "leaked"]

Release(t) == NoTxn

(* Lines 59-87: the identifier is chosen and the record built, with        *)
(* created_at = Utc::now(), before the write transaction is asked for.     *)
CreateStart(p, custom_id, url, ref_id, gen) ==
    /\ pc[p] = "idle"
    /\ LET id == IdToUse(custom_id, gen)
       IN req' = [req EXCEPT ![p] =
                    [op |-> "create", id |-> id, ref_id |-> ref_id,
                     record |-> UrlRecord(id, url, ref_id, clock)]]
    /\ pc' = [pc EXCEPT ![p] = "c_begin"]
    /\ out' = NoOut
    /\ UNCHANGED <<urls, index, wtxn, clock, created>>

(* Lines 90-109: begin_write (granted when no write transaction is open),  *)
(* the check of the identifier, and either the 409 return, which drops the *)
(* transaction, or the insert into the primary table.                      *)
(* Lines 96-104: the 409 return leaves the scope before any insert and     *)
(* drops the write transaction uncommitted: the primary table stays as it  *)
(* was read.                                                               *)
OnConflictOverwrite(t, id, record) == Insert(t, id, record)

OnConflict(t, id, record) == t

CreateBegin(p) ==
    /\ pc[p] = "c_begin"
    /\ wtxn = NoTxn
    /\ IF IdTaken(urls, req[p].id)
       THEN /\ out' = Respond("create", 409, req[p].id, req[p].ref_id,
                              req[p].record)
            /\ urls' = OnConflict(urls, req[p].id, req[p].record)
            /\ pc' = [pc EXCEPT ![p] = "idle"]
            /\ req' = [req EXCEPT ![p] = NoReq]
            /\ wtxn' = Release(wtxn)
       ELSE /\ wtxn' = [holder |-> p,
                        urls |-> Insert(urls, req[p].id, req[p].record),
                        index |-> index]
            /\ pc' = [pc EXCEPT ![p] = "c_index"]
            /\ out' = NoOut
            /\ UNCHANGED <<urls, req>>
    /\ UNCHANGED <<index, clock, created>>

(* Lines 111-121: the index insert, only for a record with a ref_id; the   *)
(* value is the record_json that went into the primary table.              *)
CreateIndexWriteReencoded(t, record) ==
    IF IsSome(record.ref_id)
    THEN Insert(t, RecordKey(record), [record EXCEPT !.clicks = 1])
    ELSE t

CreateIndexWriteAlways(t, record) ==
    Insert(t, IndexKey(IF IsSome(record.ref_id) THEN Unwrap(record.ref_id) ELSE <<>>,
                       record.created_at),
           record)

CreateIndexWrite(t, record) ==
    IF IsSome(record.ref_id) THEN Insert(t, RecordKey(record), record) ELSE t

CreateIndex(p) ==
    /\ pc[p] = "c_index"
    /\ wtxn.holder = p
    /\ wtxn' = [wtxn EXCEPT !.index = CreateIndexWrite(wtxn.index, req[p].record)]
    /\ pc' = [pc EXCEPT ![p] = "c_commit"]
    /\ out' = NoOut
    /\ UNCHANGED <<urls, index, clock, req, created>>

(* Lines 124-135: commit, then the 201 response.                           *)
CreateCommit(p) ==
    /\ pc[p] = "c_commit"
    /\ wtxn.holder = p
    /\ urls' = wtxn.urls
    /\ index' = wtxn.index
    /\ wtxn' = Release(wtxn)
    /\ created' = Insert(created, req[p].id,
                         (IF Has(created, req[p].id) THEN created[req[p].id] ELSE <<>>)
                             \o <<req[p].record>>)
    /\ out' = Respond("create", 201, req[p].id, req[p].ref_id, req[p].record)
    /\ pc' = [pc EXCEPT ![p] = "idle"]
    /\ req' = [req EXCEPT ![p] = NoReq]
    /\ UNCHANGED clock

----------------------------------------------------------------------------
(* delete_short_url                                                        *)

(* Line 325: table_main.get(id), the stored record or None.                *)
GetOrDefault(t, id) == IF Has(t, id) THEN Some(t[id]) ELSE Some(NoRecord)

Get(t, id) == IF Has(t, id) THEN Some(t[id]) ELSE None

(* Lines 317-371: begin_write (granted when no write transaction is open), *)
(* the read of the record (404 when absent, a panic in unwrap() when it    *)
(* does not deserialize), the ownership check (403), then the removal from *)
(* the primary table.  Every early exit drops the transaction and ends the *)
(* task.                                                                   *)
DeleteCheck(p, id, ref_id) ==
    /\ wtxn = NoTxn
    /\ LET found == Get(urls, id)
       IN IF ~IsSome(found)
          THEN /\ out' = Respond("delete", 404, id, ref_id, NoRecord)
               /\ pc' = [pc EXCEPT ![p] = "idle"]
               /\ req' = [req EXCEPT ![p] = NoReq]
               /\ wtxn' = Release(wtxn)
          ELSE IF ~Deserializes(Unwrap(found))
          THEN /\ out' = Respond("panic", 0, id, ref_id, NoRecord)
               /\ pc' = [pc EXCEPT ![p] = "idle"]
               /\ req' = [req EXCEPT ![p] = NoReq]
               /\ wtxn' = Release(wtxn)
          ELSE IF ~OwnershipOk(Unwrap(found), ref_id)
          THEN /\ out' = Respond("delete", 403, id, ref_id, Unwrap(found))
               /\ pc' = [pc EXCEPT ![p] = "idle"]
               /\ req' = [req EXCEPT ![p] = NoReq]
               /\ wtxn' = Release(wtxn)
          ELSE /\ wtxn' = [holder |-> p, urls |-> Remove(urls, id), index |-> index]
               /\ pc' = [pc EXCEPT ![p] = "d_index"]
               /\ req' = [req EXCEPT ![p] =
                            [op |-> "delete", id |-> id, ref_id |-> ref_id,
                             record |-> Unwrap(found)]]
               /\ out' = NoOut
    /\ UNCHANGED <<urls, index, clock, created>>

(* The request is served by a task that was idle.                          *)
DeleteBegin(p, id, ref_id) ==
    /\ pc[p] = "idle"
    /\ DeleteCheck(p, id, ref_id)

(* Lines 312-318 when the write lock is taken: the task has the request    *)
(* and blocks in begin_write until the lock is free.                       *)
DeleteStart(p, id, ref_id) ==
    /\ pc[p] = "idle"
    /\ req' = [req EXCEPT ![p] = [op |-> "delete", id |-> id, ref_id |-> ref_id,
                                  record |-> NoRecord]]
    /\ pc' = [pc EXCEPT ![p] = "d_begin"]
    /\ out' = NoOut
    /\ UNCHANGED <<urls, index, wtxn, clock, created>>

DeleteResume(p) ==
    /\ pc[p] = "d_begin"
    /\ DeleteCheck(p, req[p].id, req[p].ref_id)

(* Lines 373-378: the index removal, only for a record with a ref_id.      *)
DeleteIndexWriteSkipped(t, record) == t

DeleteIndexWrite(t, record) ==
    IF IsSome(record.ref_id) THEN Remove(t, RecordKey(record)) ELSE t

DeleteIndex(p) ==
    /\ pc[p] = "d_index"
    /\ wtxn.holder = p
    /\ wtxn' = [wtxn EXCEPT !.index = DeleteIndexWrite(wtxn.index, req[p].record)]
    /\ pc' = [pc EXCEPT ![p] = "d_commit"]
    /\ out' = NoOut
    /\ UNCHANGED <<urls, index, clock, req, created>>

(* Lines 381-392: commit, then the 200 response.                           *)
DeleteCommit(p) ==
    /\ pc[p] = "d_commit"
    /\ wtxn.holder = p
    /\ urls' = wtxn.urls
    /\ index' = wtxn.index
    /\ wtxn' = Release(wtxn)
    /\ created' = Remove(created, req[p].id)
    /\ out' = Respond("delete", 200, req[p].id, req[p].ref_id, req[p].record)
    /\ pc' = [pc EXCEPT ![p] = "idle"]
    /\ req' = [req EXCEPT ![p] = NoReq]
    /\ UNCHANGED clock

----------------------------------------------------------------------------
(* A failing write.  Every redb call of the two write handlers is followed *)
(* by unwrap(): an insert, remove or commit that returns Err panics, the   *)
(* unwinding drops write_txn, and redb aborts a write transaction that is  *)
(* dropped without commit.  The task ends without a response.              *)

AbortKeepsWrites(committed, working) == working

Abort(committed, working) == committed

(* Lines 117-125 and 374-382: the failure of the index write (the task     *)
(* stands before it) or of the commit (the task stands before it); in both *)
(* the primary table of the working copy is already changed.               *)
WriteFails(p) ==
    /\ pc[p] \in {"c_index", "c_commit", "d_index", "d_commit"}
    /\ wtxn.holder = p
    /\ urls' = Abort(urls, wtxn.urls)
    /\ index' = Abort(index, wtxn.index)
    /\ wtxn' = Release(wtxn)
    /\ out' = Respond("panic", 0, req[p].id, req[p].ref_id, req[p].record)
    /\ pc' = [pc EXCEPT ![p] = "idle"]
    /\ req' = [req EXCEPT ![p] = NoReq]
    /\ UNCHANGED <<clock, created>>

----------------------------------------------------------------------------
(* redirect_url and list_urls: one read transaction each.  What a handler  *)
(* returns is a function of the state committed when begin_read ran, so    *)
(* each is one step on ReadView.                                           *)

(* Line 176: Redirect::temporary(&record.original_url), the Location of    *)
(* the 307.                                                                *)
RedirectTargetShort(record) == record.short_url

RedirectTarget(record) == record.original_url

(* Lines 174-175: the click counter is not incremented (a TODO): the        *)
(* handler has a read transaction only and the stored record stays as it   *)
(* is.                                                                     *)
OnRedirectCountsClick(t, id) ==
    IF Has(t, id) THEN [t EXCEPT ![id].clicks = @ + 1] ELSE t

OnRedirect(t, id) == t

RedirectUrl(id) ==
    /\ LET found == Get(ReadView.urls, id)
       IN out' = IF IsSome(found) /\ Deserializes(Unwrap(found))
                 THEN [Respond("redirect", 307, id, None, Unwrap(found))
                          EXCEPT !.location = RedirectTarget(Unwrap(found))]
                 ELSE Respond("redirect", 404, id, None, NoRecord)
    /\ urls' = OnRedirect(urls, id)
    /\ UNCHANGED <<index, wtxn, clock, pc, req, created>>

(* Lines 275-281: the envelope echoes the effective page and limit, and    *)
(* total_fetched is results.len().                                         *)
(* Line 226: when the product exceeds the word, a build with overflow      *)
(* checks panics there ("attempt to multiply with overflow") and the       *)
(* request gets no response; a build without them goes on with the wrapped *)
(* offset.                                                                 *)
ListUrls(ref_id, page, limit) ==
    /\ \E checked \in (IF MulOverflows(EffPage(page) - 1, EffLimit(limit))
                       THEN BOOLEAN ELSE {FALSE}) :
          out' = IF checked
                 THEN [NoOut EXCEPT !.op = "panic", !.ref_id = ref_id,
                                    !.page = EffPage(page), !.limit = EffLimit(limit)]
                 ELSE LET results == ListResult(ReadView, ref_id, page, limit)
                      IN [NoOut EXCEPT !.op = "list", !.status = 200, !.ref_id = ref_id,
                                       !.page = EffPage(page), !.limit = EffLimit(limit),
                                       !.total_fetched = Len(results),
                                       !.data = results]
    /\ UNCHANGED <<urls, index, wtxn, clock, pc, req, created>>

----------------------------------------------------------------------------
(* auth_middleware (src/src/middleware.rs), the layer in front of the      *)
(* /api routes.  The secret is env::var("AUTHORIZATION").ok(), read at     *)
(* every request: None when the variable is not set (or is not unicode).   *)
(* A header is the bytes of the request's first Authorization header       *)
(* value, None when the request has none.                                  *)

(* HeaderValue::to_str(): the value as &str when every byte is visible     *)
(* ASCII (32..126) or a tab, Err otherwise.                                *)
IsVisibleAscii(b) == (b >= 32 /\ b < 127) \/ b = 9

ToStr(h) == IF \A i \in 1..Len(h) : IsVisibleAscii(h[i]) THEN Some(h) ELSE None

(* Lines 25-57: TRUE when the middleware calls next.run(request).          *)
AuthPasses(secret, header) ==
    IF IsSome(secret) /\ Unwrap(secret) # <<>>
    THEN /\ IsSome(header)
         /\ IsSome(ToStr(Unwrap(header)))
         /\ Unwrap(ToStr(Unwrap(header))) = Unwrap(secret)
    ELSE TRUE

(* Lines 31-39: the 401 response; the handler is not run.                  *)
Unauthorized(p, op, id) ==
    /\ pc[p] = "idle"
    /\ out' = Respond(op, 401, id, None, NoRecord)
    /\ UNCHANGED <<urls, index, wtxn, clock, pc, req, created>>

(* route.rs lines 45-48: POST /api/urls, GET /api/urls and DELETE          *)
(* /api/{id} behind the layer.                                             *)
ApiCreate(secret, header, p, custom_id, url, ref_id, gen) ==
    IF AuthPasses(secret, header)
    THEN CreateStart(p, custom_id, url, ref_id, gen)
    ELSE Unauthorized(p, "create", <<>>)

ApiList(secret, header, p, ref_id, page, limit) ==
    IF AuthPasses(secret, header)
    THEN ListUrls(ref_id, page, limit)
    ELSE Unauthorized(p, "list", <<>>)

ApiDelete(secret, header, p, id, ref_id) ==
    IF AuthPasses(secret, header)
    THEN DeleteBegin(p, id, ref_id)
    ELSE Unauthorized(p, "delete", id)

(* route.rs lines 50-52: GET /{id} is routed to redirect_url outside the   *)
(* layer: whatever secret is configured and whatever header the request    *)
(* carries, the handler runs.                                              *)
RedirectGated(secret, header, id) ==
    IF AuthPasses(secret, header)
    THEN RedirectUrl(id)
    ELSE /\ out' = Respond("redirect", 401, id, None, NoRecord)
         /\ UNCHANGED <<urls, index, wtxn, clock, pc, req, created>>

RedirectPublic(secret, header, id) == RedirectUrl(id)

(* Time passes: the clock moves forward to the reading now.                *)
Tick(now) ==
    /\ clock < now
    /\ clock' = now
    /\ out' = NoOut
    /\ UNCHANGED <<urls, index, wtxn, pc, req, created>>

---------------------------------------------------------------------------------------------------------------------------------------------------
(* Inputs.                                                                 *)

IdX == <<120>>
IdY == <<121>>
IdZ == <<122>>
GenId == <<103, 55, 75, 50, 109, 81>>
OwnerA == <<97>>
OwnerAB == <<97, 58, 98>>
Url1 == <<117, 49>>
Url2 == <<117, 50>>

(* The url a task's create requests carry: one per task.                   *)
UrlOf(p) == IF p = "t1" THEN Url1 ELSE Url2

MaxPage == 3
MaxLimit == 2

(* Two tasks race on two identifiers.                                      *)
MainIn ==
    [procs |-> Procs,
     custom_ids |-> {Some(IdX), Some(IdY)},
     gens |-> {GenId},
     owners |-> {None, Some(OwnerA), Some(OwnerAB)},
     ids |-> {IdX, IdY},
     rids |-> {IdX},
     lrefs |-> {Some(OwnerA)},
     pages |-> {None},
     limits |-> {None},
     times |-> {ClockStart + 1}]

(* One task fills the store; lists run with every page and limit.          *)
ListIn ==
    [procs |-> {"t1"},
     custom_ids |-> {Some(IdX), Some(IdY), Some(IdZ)},
     gens |-> {GenId},
     owners |-> {Some(OwnerA), Some(OwnerAB)},
     ids |-> {IdX},
     rids |-> {IdX},
     lrefs |-> {Some(OwnerA), Some(OwnerAB)},
     pages |-> {Some(i) : i \in 1..MaxPage},
     limits |-> {Some(i) : i \in 1..MaxLimit},
     times |-> {ClockStart + 1}]

NextWith(in) ==
    \/ \E p \in in.procs : \E c \in in.custom_ids, r \in in.owners, g \in in.gens :
          CreateStart(p, c, UrlOf(p), r, g)
    \/ \E p \in in.procs : CreateBegin(p)
    \/ \E p \in in.procs : CreateIndex(p)
    \/ \E p \in in.procs : CreateCommit(p)
    \/ \E p \in in.procs, i \in in.ids, r \in in.owners : DeleteBegin(p, i, r)
    \/ \E p \in in.procs : DeleteIndex(p)
    \/ \E p \in in.procs : DeleteCommit(p)
    \/ \E i \in in.rids : RedirectUrl(i)
    \/ \E r \in in.lrefs, pg \in in.pages, lm \in in.limits : ListUrls(r, pg, lm)
    \/ \E now \in in.times : Tick(now)

Next == NextWith(MainIn)

Spec == Init /\ [][Next]_vars

NextList == NextWith(ListIn)

SpecList == Init /\ [][NextList]_vars

(* Two tasks create, delete and look up two identifiers, with one owner    *)
(* and without.                                                            *)
RaceIn ==
    [procs |-> Procs,
     custom_ids |-> {Some(IdX), Some(IdY)},
     gens |-> {GenId},
     owners |-> {None, Some(OwnerA)},
     ids |-> {IdX, IdY},
     rids |-> {IdX, IdY},
     lrefs |-> {Some(OwnerA)},
     pages |-> {None},
     limits |-> {None},
     times |-> {ClockStart + 1}]

NextRace == NextWith(RaceIn)

SpecRace == Init /\ [][NextRace]_vars

(* One task creates with a custom identifier, with none and with the empty *)
(* one; the generator draws the samples "AZaz09" or "g7K2mQ".              *)
SamplesEdges == <<0, 25, 26, 51, 52, 61, 7>>
SamplesMixed == <<32, 59, 10, 54, 38, 16, 0>>

GenIn ==
    [procs |-> {"t1"},
     custom_ids |-> {None, Some(<<>>), Some(IdX)},
     gens |-> {Generate(SamplesEdges), Generate(SamplesMixed)},
     owners |-> {None, Some(OwnerA)},
     ids |-> {IdX, Generate(SamplesEdges)},
     rids |-> {IdX},
     lrefs |-> {None},
     pages |-> {None},
     limits |-> {None},
     times |-> {ClockStart + 1}]

NextGen == NextWith(GenIn)

SpecGen == Init /\ [][NextGen]_vars

(* One task creates the records of one owner at three clock readings, two *)
(* of them with the same number of digits, and lists them.                 *)
OrderIn ==
    [procs |-> {"t1"},
     custom_ids |-> {Some(IdX), Some(IdY), Some(IdZ)},
     gens |-> {GenId},
     owners |-> {Some(OwnerA)},
     ids |-> {IdX},
     rids |-> {IdX},
     lrefs |-> {Some(OwnerA)},
     pages |-> {None, Some(2)},
     limits |-> {None, Some(2)},
     times |-> {ClockStart + 1, ClockStart + 2}]

NextOrder == NextWith(OrderIn)

SpecOrder == Init /\ [][NextOrder]_vars

(* Two tasks write one identifier, and any write may fail.                 *)
(* init_db opens data.db when it exists (Database::create), so the service *)
(* can start on tables that already hold entries.  Here the file holds one *)
(* owned entry written before this run whose value does not deserialize    *)
(* as a UrlRecord, under its identifier and under its index key.           *)
IdW == <<119>>

StaleTime == ClockStart - 1

StaleRecord == [UrlRecord(IdW, Url1, Some(OwnerA), StaleTime) EXCEPT !.clicks = -1]

InitStale ==
    /\ urls = Insert(EmptyTable, IdW, StaleRecord)
    /\ index = Insert(EmptyTable, IndexKey(OwnerA, StaleTime), StaleRecord)
    /\ wtxn = NoTxn
    /\ clock = ClockStart
    /\ pc = [p \in Procs |-> "idle"]
    /\ req = [p \in Procs |-> NoReq]
    /\ out = NoOut
    /\ created = EmptyTable

StaleIn ==
    [procs |-> {"t1"},
     custom_ids |-> {Some(IdX), Some(IdY)},
     gens |-> {GenId},
     owners |-> {Some(OwnerA)},
     ids |-> {IdW, IdX},
     rids |-> {IdW, IdX},
     lrefs |-> {None, Some(OwnerA)},
     pages |-> {None, Some(2)},
     limits |-> {Some(1), Some(2)},
     times |-> {ClockStart + 1}]

NextStale == NextWith(StaleIn)

SpecStale == InitStale /\ [][NextStale]_vars

(* One task stores up to two owned records; lists carry small pages and    *)
(* the largest pages a usize holds.                                        *)
WordIn ==
    [procs |-> {"t1"},
     custom_ids |-> {Some(IdX), Some(IdY)},
     gens |-> {GenId},
     owners |-> {Some(OwnerA)},
     ids |-> {IdX},
     rids |-> {IdX},
     lrefs |-> {None, Some(OwnerA)},
     pages |-> {None, Some(2), Some(UsizeRange \div 2 + 1), Some(UsizeMax)},
     limits |-> {None, Some(2)},
     times |-> {ClockStart + 1}]

NextWord == NextWith(WordIn)

SpecWord == Init /\ [][NextWord]_vars

FailIn ==
    [procs |-> Procs,
     custom_ids |-> {Some(IdX)},
     gens |-> {GenId},
     owners |-> {None, Some(OwnerA)},
     ids |-> {IdX},
     rids |-> {IdX},
     lrefs |-> {Some(OwnerA)},
     pages |-> {None},
     limits |-> {None},
     times |-> {ClockStart + 1}]

(* One task fills the store with owned and unowned records under custom   *)
(* and generated identifiers; lists run with and without owner, with page  *)
(* and limit absent, zero, small, at the cap and above it.                 *)
PageIn ==
    [procs |-> {"t1"},
     custom_ids |-> {None, Some(<<>>), Some(IdX), Some(IdY)},
     gens |-> {GenId},
     owners |-> {None, Some(OwnerA)},
     ids |-> {IdX},
     rids |-> {IdX},
     lrefs |-> {None, Some(OwnerA)},
     pages |-> {None, Some(0), Some(2)},
     limits |-> {None, Some(0), Some(1), Some(LimitCap + 1)},
     times |-> {ClockStart + 1}]

NextPage == NextWith(PageIn)

SpecPage == Init /\ [][NextPage]_vars

(* Requests through the authorization layer: the secret is unset, empty,   *)
(* "s" or "\u00e9" (two bytes in UTF-8); the header is absent, "s", "t" or   *)
(* the bytes of "\u00e9".                                                    *)
SecretAscii == <<115>>
SecretAccent == <<195, 169>>
HeaderOther == <<116>>

AuthIn ==
    [procs |-> {"t1"},
     custom_ids |-> {Some(IdX), Some(IdY)},
     gens |-> {GenId},
     owners |-> {None, Some(OwnerA)},
     ids |-> {IdX},
     rids |-> {IdX},
     lrefs |-> {Some(OwnerA)},
     pages |-> {None},
     limits |-> {None},
     times |-> {ClockStart + 1},
     secrets |-> {None, Some(<<>>), Some(SecretAscii), Some(SecretAccent)},
     headers |-> {None, Some(SecretAscii), Some(HeaderOther), Some(SecretAccent)}]

ApiStep(in, secret, header) ==
    \/ \E p \in in.procs : \E c \in in.custom_ids, r \in in.owners, g \in in.gens :
          ApiCreate(secret, header, p, c, UrlOf(p), r, g)
    \/ \E p \in in.procs, r \in in.lrefs, pg \in in.pages, lm \in in.limits :
          ApiList(secret, header, p, r, pg, lm)
    \/ \E p \in in.procs, i \in in.ids, r \in in.owners :
          ApiDelete(secret, header, p, i, r)

NextAuth ==
    \/ \E s \in AuthIn.secrets, h \in AuthIn.headers : ApiStep(AuthIn, s, h)
    \/ \E p \in AuthIn.procs : CreateBegin(p)
    \/ \E p \in AuthIn.procs : CreateIndex(p)
    \/ \E p \in AuthIn.procs : CreateCommit(p)
    \/ \E p \in AuthIn.procs : DeleteIndex(p)
    \/ \E p \in AuthIn.procs : DeleteCommit(p)
    \/ \E s \in AuthIn.secrets, h \in AuthIn.headers, i \in AuthIn.rids :
          RedirectPublic(s, h, i)
    \/ \E now \in AuthIn.times : Tick(now)

SpecAuth == Init /\ [][NextAuth]_vars

NextFail ==
    \/ NextWith(FailIn)
    \/ \E p \in FailIn.procs : WriteFails(p)

SpecFail == Init /\ [][NextFail]_vars

(* Two tasks serve creates, deletes, lists and redirects on one            *)
(* identifier for ever; a create and a delete wait in begin_write while    *)
(* the other task holds the write transaction, and a write can fail.       *)
LiveIn ==
    [procs |-> Procs,
     custom_ids |-> {Some(IdX)},
     gens |-> {GenId},
     owners |-> {None, Some(OwnerA)},
     ids |-> {IdX},
     rids |-> {IdX},
     lrefs |-> {Some(OwnerA)},
     pages |-> {None},
     limits |-> {None},
     times |-> {ClockStart + 1}]

NextLive ==
    \/ \E p \in LiveIn.procs : \E c \in LiveIn.custom_ids, r \in LiveIn.owners,
                                  g \in LiveIn.gens :
          CreateStart(p, c, UrlOf(p), r, g)
    \/ \E p \in LiveIn.procs : CreateBegin(p)
    \/ \E p \in LiveIn.procs : CreateIndex(p)
    \/ \E p \in LiveIn.procs : CreateCommit(p)
    \/ \E p \in LiveIn.procs, i \in LiveIn.ids, r \in LiveIn.owners : DeleteStart(p, i, r)
    \/ \E p \in LiveIn.procs : DeleteResume(p)
    \/ \E p \in LiveIn.procs : DeleteIndex(p)
    \/ \E p \in LiveIn.procs : DeleteCommit(p)
    \/ \E p \in LiveIn.procs : WriteFails(p)
    \/ \E i \in LiveIn.rids : RedirectUrl(i)
    \/ \E r \in LiveIn.lrefs, pg \in LiveIn.pages, lm \in LiveIn.limits : ListUrls(r, pg, lm)
    \/ \E now \in LiveIn.times : Tick(now)

(* The scheduler.  A handler has no await between begin_write and commit,  *)
(* so the task that holds the write transaction keeps its thread and its   *)
(* next step is taken (weak fairness).  A task blocked in begin_write is   *)
(* granted the lock if the lock is free again and again (strong fairness): *)
(* the fair hand-over of the lock among the waiting tasks.                 *)
LiveFairness ==
    \A p \in LiveIn.procs :
        /\ WF_vars(CreateIndex(p))
        /\ WF_vars(CreateCommit(p))
        /\ WF_vars(DeleteIndex(p))
        /\ WF_vars(DeleteCommit(p))
        /\ SF_vars(CreateBegin(p))
        /\ SF_vars(DeleteResume(p))

SpecLive == Init /\ [][NextLive]_vars /\ LiveFairness

----------------------------------------------------------------------------
(* Properties.                                                             *)

Owned(t) == {x \in DOMAIN t : IsSome(t[x].ref_id)}

(* C1: in every committed state the index holds the key owner:timestamp    *)
(* if and only if the primary table holds a record with that owner and     *)
(* that created_at, also when distinct records share owner and             *)
(* microsecond.                                                            *)
C1_IndexIffPrimary ==
    /\ \A x \in Owned(urls) : Has(index, RecordKey(urls[x]))
    /\ \A k \in DOMAIN index : \E x \in Owned(urls) : RecordKey(urls[x]) = k

(* C2: once a create of x was answered 201 and x was not deleted since,    *)
(* every create of x that reaches its check is answered 409, whatever url  *)
(* and owner it carries.                                                   *)
C2_DuplicateCreateConflicts ==
    [][\A p \in Procs :
          (pc[p] = "c_begin" /\ pc'[p] # "c_begin" /\ Has(created, req[p].id))
              => /\ pc'[p] = "idle"
                 /\ out'.op = "create"
                 /\ out'.status = 409
                 /\ out'.id = req[p].id
                 /\ out'.record = req[p].record]_vars

C2_Witness ==
    /\ out.op = "create"
    /\ out.status = 409
    /\ Has(created, out.id)
    /\ created[out.id][1].original_url # out.record.original_url
    /\ created[out.id][1].ref_id # out.record.ref_id

(* C3: of the creates of one identifier that race on a store where it is   *)
(* absent, exactly one is answered 201 and the others 409, and the record  *)
(* stored is that of the one answered 201.                                 *)
C3_OneWinner ==
    /\ \A x \in (DOMAIN urls) \cup (DOMAIN created) :
          Has(urls, x) /\ Has(created, x) /\ created[x] = <<urls[x]>>
    /\ out.op = "create" =>
          /\ out.status \in {201, 409}
          /\ Has(urls, out.id)
          /\ out.status = 201 => urls[out.id] = out.record

(* The loser took its timestamp before the winner did and was answered     *)
(* after the winner's commit: the two requests overlapped.                 *)
C3_Witness ==
    /\ out.op = "create"
    /\ out.status = 409
    /\ Has(urls, out.id)
    /\ out.record.created_at < urls[out.id].created_at
    /\ created[out.id] = <<urls[out.id]>>

(* C4: a create answered 409 leaves the primary and the index table as     *)
(* they were: the stored record keeps its url, owner and created_at, and   *)
(* no index entry is added for the rejected request.                       *)
C4_ConflictChangesNothing ==
    [][(out'.op = "create" /\ out'.status = 409)
          => /\ urls' = urls
             /\ index' = index
             /\ Has(urls', out'.id)
             /\ Has(created, out'.id)
             /\ urls'[out'.id] = created[out'.id][1]]_vars

C4_Witness ==
    /\ out.op = "create"
    /\ out.status = 409
    /\ IsSome(out.record.ref_id)
    /\ urls[out.id].original_url # out.record.original_url
    /\ ~Has(index, RecordKey(out.record))

(* C5: a delete removes the record's primary entry and its index entry in  *)
(* one step of the committed state: no read view ever has the one removed  *)
(* and the other still present.                                            *)
C5_DeleteAtomic ==
    [][/\ \A x \in Owned(ReadView.urls) :
             ~Has(ReadView'.urls, x)
                 => ~Has(ReadView'.index, RecordKey(ReadView.urls[x]))
       /\ \A k \in DOMAIN ReadView.index :
             ~Has(ReadView'.index, k)
                 => \E x \in Owned(ReadView.urls) :
                        /\ ~Has(ReadView'.urls, x)
                        /\ RecordKey(ReadView.urls[x]) = k]_vars

C5_Witness ==
    /\ out.op = "delete"
    /\ out.status = 200
    /\ IsSome(out.record.ref_id)
    /\ ~Has(urls, out.id)
    /\ ~Has(index, RecordKey(out.record))
    /\ index # EmptyTable

(* The records an owner-scoped list returns over all its pages, taken one  *)
(* entry per page.                                                         *)
Elems(sq) == {sq[i] : i \in 1..Len(sq)}

ListedAll(ref) ==
    UNION {Elems(ListResult(ReadView, Some(ref), Some(pg), Some(1))) :
              pg \in 1..Cardinality(DOMAIN ReadView.index)}

(* C6: from the commit of its create to the commit of its delete an owned  *)
(* record is in its owner's listing, and a listing holds no record that    *)
(* is not stored, whatever happens to other records.                       *)
C6_ListedWhileLive ==
    /\ \A x \in Owned(urls) : urls[x] \in ListedAll(Unwrap(urls[x].ref_id))
    /\ \A k \in DOMAIN index :
          \A r \in ListedAll(Unwrap(index[k].ref_id)) :
              Has(urls, r.id) /\ urls[r.id] = r

(* C7: an owner-scoped list returns only records of exactly that owner,    *)
(* also for owners that contain the separator ("a" and "a:b").             *)
C7_ListOnlyOwner ==
    (out.op = "list" /\ IsSome(out.ref_id))
        => \A i \in 1..Len(out.data) : out.data[i].ref_id = out.ref_id

(* C8: an owner-scoped list returns the owner's records oldest first, in   *)
(* ascending order of created_at.                                          *)
C8_ListOldestFirst ==
    (out.op = "list" /\ IsSome(out.ref_id))
        => \A i, j \in 1..Len(out.data) :
              (i < j /\ out.data[i].ref_id = out.ref_id
                     /\ out.data[j].ref_id = out.ref_id)
                  => out.data[i].created_at < out.data[j].created_at

OwnedBy(ref_id) == {x \in DOMAIN urls : urls[x].ref_id = ref_id}

(* C9: with n records of the owner stored and no write in progress, page p *)
(* of limit l holds min(l, max(0, n - (p-1)*l)) records, and every record  *)
(* of the owner is on exactly one page.                                    *)
C9_PagesPartition ==
    (out.op = "list" /\ IsSome(out.ref_id) /\ wtxn = NoTxn)
        => LET n == Cardinality(OwnedBy(out.ref_id))
               lim == Some(out.limit)
           IN /\ Len(out.data) = Min(out.limit, Max(0, n - (out.page - 1) * out.limit))
              /\ \A x \in OwnedBy(out.ref_id) :
                    Cardinality({pg \in 1..(n + 1) :
                        urls[x] \in Elems(ListResult(ReadView, out.ref_id, Some(pg), lim))}) = 1

(* C10: a delete of a stored record that carries a ref_id is answered 200  *)
(* exactly when the record's ref_id is that ref_id; otherwise it is        *)
(* answered 403 and neither table changes.                                 *)
C10_OwnershipGate ==
    [][(out'.op = "delete" /\ IsSome(out'.ref_id) /\ out'.status # 404)
          => /\ out'.status \in {200, 403}
             /\ out'.status = 200 <=> out'.record.ref_id = out'.ref_id
             /\ out'.status = 200 => ~Has(urls', out'.id)
             /\ out'.status = 403
                   => /\ urls' = urls
                      /\ index' = index
                      /\ Has(urls, out'.id)
                      /\ urls[out'.id] = out'.record]_vars

C10_Witness ==
    /\ out.op = "delete"
    /\ out.status = 403
    /\ IsSome(out.ref_id)
    /\ IsSome(out.record.ref_id)
    /\ Has(urls, out.id)
    /\ Has(index, RecordKey(out.record))

C12_DeleteAbsentNotFound ==
    [][/\ out'.op = "delete"
          => /\ out'.status = 404 <=> ~Has(urls, out'.id)
             /\ ~Has(created, out'.id) => out'.status = 404
             /\ out'.status = 404
                   => urls' = urls /\ index' = index /\ wtxn' = wtxn
       /\ (out.op = "delete" /\ out.status = 200
              /\ out'.op = "delete" /\ out'.id = out.id)
          => out'.status = 404]_vars

C12_Witness ==
    /\ out.op = "delete"
    /\ out.status = 404
    /\ ~Has(urls, out.id)
    /\ ~Has(created, out.id)
    /\ urls # EmptyTable
    /\ index # EmptyTable

(* C13: a redirect of x is answered 307 with the original_url given at the *)
(* create of x that was answered 201 when x was created and not deleted    *)
(* since, and 404 when x was never created or was deleted after.           *)
C13_RedirectRoundTrip ==
    out.op = "redirect"
        => IF Has(created, out.id)
           THEN /\ out.status = 307
                /\ Len(created[out.id]) = 1
                /\ out.location = created[out.id][1].original_url
           ELSE /\ out.status = 404
                /\ out.location = <<>>

C13_Witness ==
    /\ out.op = "redirect"
    /\ out.status = 307
    /\ out.location = urls[out.id].original_url
    /\ out.location \in {Url1, Url2}
    /\ \E y \in DOMAIN urls : urls[y].original_url # out.location

(* C14: a create or delete that fails after its first table mutation, at   *)
(* the index write or at the commit, leaves the primary and the index      *)
(* table as they were before it began, and no later state shows any of its *)
(* writes: the tables hold exactly the records of the creates answered 201 *)
(* and not deleted with a 200 since.                                       *)
C14_AllOrNothing ==
    [][/\ out'.op = "panic"
          => /\ wtxn.urls # urls
             /\ urls' = urls
             /\ index' = index
             /\ wtxn' = NoTxn
       /\ \A x \in (DOMAIN urls') \cup (DOMAIN created') :
             Has(urls', x) /\ Has(created', x) /\ created'[x] = <<urls'[x]>>
       /\ \A k \in DOMAIN index' :
             Has(urls', index'[k].id) /\ urls'[index'[k].id] = index'[k]]_vars

(* A delete of a stored, owned record failed: the record and its index     *)
(* entry are still there.                                                  *)
C14_Witness ==
    /\ out.op = "panic"
    /\ IsSome(out.record.ref_id)
    /\ Has(urls, out.id)
    /\ urls[out.id] = out.record
    /\ Has(index, RecordKey(out.record))

C17_AtMostLimit ==
    out.op = "list"
        => /\ Len(out.data) <= out.limit
           /\ out.total_fetched = Len(out.data)

(* A full page of a store that holds more records than the limit.          *)
C17_Witness ==
    /\ out.op = "list"
    /\ out.ref_id = None
    /\ out.limit >= 1
    /\ Len(out.data) = out.limit
    /\ out.total_fetched < Cardinality(DOMAIN urls)

(* C18: for every page and limit parameter, absent, zero or above the cap, *)
(* the effective page is at least 1 and the effective limit is within      *)
(* 1..100; an absent page is 1 and an absent limit is 10.                  *)
C18_EffectiveParams ==
    [][\A r \in PageIn.lrefs, pg \in PageIn.pages, lm \in PageIn.limits :
          ListUrls(r, pg, lm)
              => /\ out'.page >= 1
                 /\ out'.limit \in 1..100
                 /\ pg = None => out'.page = 1
                 /\ lm = None => out'.limit = 10]_vars

(* C19: for two index entries of one owner, the byte order of their keys   *)
(* (owner, ":", created_at in microseconds as unpadded decimal) is the     *)
(* numeric order of their created_at.                                      *)
C19_KeyOrderIsTimeOrder ==
    \A k1, k2 \in DOMAIN index :
        (index[k1].ref_id = index[k2].ref_id
            /\ k1 = RecordKey(index[k1]) /\ k2 = RecordKey(index[k2]))
          => (StrLess(k1, k2) <=> index[k1].created_at < index[k2].created_at)

(* C20: a request to an /api route reaches its handler if and only if the  *)
(* secret is unset or empty or the request's Authorization header equals   *)
(* the secret; otherwise it is answered 401 and the store, the open        *)
(* transaction and every task are left as they were.                       *)
C20_AuthGate ==
    [][\A s \in AuthIn.secrets, h \in AuthIn.headers :
          ApiStep(AuthIn, s, h)
              => /\ out'.status # 401
                       <=> (s = None \/ s = Some(<<>>) \/ h = s)
                 /\ out'.status = 401
                       => /\ urls' = urls /\ index' = index
                          /\ wtxn' = wtxn /\ pc' = pc /\ created' = created]_vars

(* C21: GET /{id} is public: for every secret and every Authorization      *)
(* header, present or not, matching or not, the redirect is answered 307   *)
(* when the identifier is stored and 404 when it is not, never 401.        *)
C21_RedirectPublic ==
    [][\A s \in AuthIn.secrets, h \in AuthIn.headers, i \in AuthIn.rids :
          RedirectPublic(s, h, i)
              => /\ out'.op = "redirect"
                 /\ out'.status = IF Has(urls, i) THEN 307 ELSE 404
                 /\ out'.location = IF Has(urls, i) THEN urls[i].original_url ELSE <<>>
                 /\ urls' = urls /\ index' = index]_vars

C21_Witness ==
    /\ out.op = "redirect"
    /\ out.status = 307
    /\ Has(urls, out.id)
    /\ out.location = urls[out.id].original_url

IsAlphanumeric(b) == b \in (48..57) \cup (65..90) \cup (97..122)

(* C22: a create with a non-empty custom_id uses exactly that string as    *)
(* identifier; a create with no custom_id or with the empty one uses the   *)
(* generated string, which has exactly 6 characters, all of them letters   *)
(* or digits; the empty identifier is never stored.                        *)
C22_IdentifierSelection ==
    [][/\ \A p \in GenIn.procs, c \in GenIn.custom_ids, r \in GenIn.owners,
            g \in GenIn.gens :
             CreateStart(p, c, UrlOf(p), r, g)
                 => /\ req'[p].record.id = req'[p].id
                    /\ IF c # None /\ c # Some(<<>>)
                       THEN req'[p].id = c[1]
                       ELSE /\ req'[p].id = g
                            /\ Len(g) = 6
                            /\ \A i \in 1..Len(g) : IsAlphanumeric(g[i])
       /\ ~Has(urls', <<>>)
       /\ \A k \in DOMAIN urls' :
             k = IdX \/ (Len(k) = 6 /\ \A i \in 1..Len(k) : IsAlphanumeric(k[i]))]_vars

(* A record under the custom identifier and one under a generated          *)
(* identifier are stored.                                                  *)
C22_Witness ==
    /\ Has(urls, IdX)
    /\ Has(urls, GenId)
    /\ \E k \in DOMAIN urls : k[1] = 65 /\ k[6] = 57

C24_CommitOrderIsTimeOrder ==
    [][(out'.op = "create" /\ out'.status = 201 /\ IsSome(out'.record.ref_id))
          => \A x \in DOMAIN urls :
                urls[x].ref_id = out'.record.ref_id
                    => urls[x].created_at <= out'.record.created_at]_vars

(* The records a list of the owner returns on the tables urls and index,   *)
(* all pages together.                                                     *)
ListedOn(t_urls, t_index, ref) ==
    Elems(ListResult([urls |-> t_urls, index |-> t_index], Some(ref),
                     Some(1), Some(LimitCap)))

(* C25: a delete of r leaves every other stored record r' in the primary   *)
(* table unchanged and, when r' was in its owner's listing before the      *)
(* delete, in that listing afterwards, also when r and r' have the same    *)
(* owner and the same created_at.                                          *)
C25_DeleteAffectsOnlyItsRecord ==
    [][(out'.op = "delete" /\ out'.status = 200)
          => \A x \in (DOMAIN urls) \ {out'.id} :
                /\ Has(urls', x)
                /\ urls'[x] = urls[x]
                /\ (IsSome(urls[x].ref_id)
                      /\ urls[x] \in ListedOn(urls, index, Unwrap(urls[x].ref_id)))
                    => urls[x] \in ListedOn(urls', index', Unwrap(urls[x].ref_id))]_vars

(* C26: in every committed state the value of each index entry is the      *)
(* value stored in the primary table under that record's id, and the key   *)
(* of the entry is the key of that record; an owner-scoped list returns    *)
(* only records that a lookup by id returns just so.                       *)
C26_NoDanglingIndexEntries ==
    /\ \A k \in DOMAIN index :
          /\ Has(urls, index[k].id)
          /\ urls[index[k].id] = index[k]
          /\ IsSome(index[k].ref_id)
          /\ RecordKey(index[k]) = k
    /\ (out.op = "list" /\ IsSome(out.ref_id))
          => \A i \in 1..Len(out.data) :
                /\ Has(urls, out.data[i].id)
                /\ urls[out.data[i].id] = out.data[i]

(* A list returned the one index entry of an owner who has a second record *)
(* stored: what it returned is what the primary table holds under that id. *)
C26_Witness ==
    /\ out.op = "list"
    /\ IsSome(out.ref_id)
    /\ Len(out.data) = 1
    /\ urls[out.data[1].id] = out.data[1]
    /\ \E x \in DOMAIN urls : urls[x].ref_id = out.ref_id /\ urls[x] # out.data[1]

(* C27: in every committed state the record stored under the key k of the  *)
(* primary table has id k and short_url the domain, "/" and k.             *)
C27_KeyIsIdAndShortUrl ==
    \A k \in DOMAIN urls :
        /\ urls[k].id = k
        /\ Len(urls[k].short_url) = Len(Domain) + 1 + Len(k)
        /\ SubSeq(urls[k].short_url, 1, Len(Domain)) = Domain
        /\ urls[k].short_url[Len(Domain) + 1] = 47
        /\ SubSeq(urls[k].short_url, Len(Domain) + 2, Len(urls[k].short_url)) = k

C27_Witness ==
    /\ Has(urls, IdX)
    /\ Has(urls, GenId)
    /\ urls[IdX].short_url # urls[GenId].short_url

(* C28: the value stored under an identifier never changes while the       *)
(* identifier stays stored, and an identifier leaves the primary table     *)
(* only in the commit of a delete of it answered 200; a redirect, a list   *)
(* and a create or delete answered 409, 404 or 403 write to neither table. *)
C28_RecordsImmutable ==
    [][/\ \A x \in DOMAIN urls :
             IF Has(urls', x)
             THEN urls'[x] = urls[x]
             ELSE out'.op = "delete" /\ out'.status = 200 /\ out'.id = x
       /\ (out'.op \in {"redirect", "list"} \/ out'.status \in {409, 404, 403})
             => urls' = urls /\ index' = index]_vars

(* A redirect of a record created at an earlier clock reading: the record  *)
(* is the one its create stored, with no click counted.                    *)
C28_Witness ==
    /\ out.op = "redirect"
    /\ out.status = 307
    /\ urls[out.id] = created[out.id][1]
    /\ urls[out.id].clicks = 0
    /\ urls[out.id].created_at < clock

(* C29: in a list, stored entries that do not deserialize are dropped and  *)
(* do not count toward the limit: when the scanned range (the owner's      *)
(* index entries, or the whole primary table), after the first             *)
(* (page - 1) * limit entries are skipped, still holds at least limit      *)
(* entries that deserialize, the page holds exactly limit records.         *)
C29_UndeserializableNotCounted ==
    out.op = "list"
        => LET all == IF IsSome(out.ref_id)
                      THEN Range(index, StartKey(Unwrap(out.ref_id)),
                                 EndKey(Unwrap(out.ref_id)))
                      ELSE Iter(urls)
               off == (out.page - 1) * out.limit
               good == {i \in DOMAIN all : i > off /\ all[i].clicks >= 0}
           IN Cardinality(good) >= out.limit => Len(out.data) = out.limit

C31_ConcurrentDeletes ==
    [][\A p, q \in Procs :
         p # q =>
           /\ ( /\ pc[p] = "d_commit" /\ pc'[p] = "idle"
                /\ out'.op = "delete" /\ out'.status = 200
                /\ pc[q] = "d_begin" /\ req[q].id = req[p].id )
              => /\ Has(urls, req[p].id)
                 /\ ~Has(urls', req[p].id)
                 /\ pc'[q] = "d_begin"
           /\ ( /\ pc[q] = "d_begin" /\ pc'[q] # "d_begin"
                /\ ~Has(urls, req[q].id) )
              => /\ out'.op = "delete" /\ out'.status = 404 /\ out'.id = req[q].id
                 /\ pc'[q] = "idle"
                 /\ urls' = urls /\ index' = index
           /\ ( pc[q] = "d_begin" /\ pc'[q] = "d_index" )
              => /\ wtxn = NoTxn
                 /\ pc[p] \notin {"c_index", "c_commit", "d_index", "d_commit"}
                 /\ Has(urls, req[q].id)
                 /\ req'[q].record = urls[req[q].id]
                 /\ OwnershipOk(urls[req[q].id], req[q].ref_id)
           /\ ( pc[q] = "d_begin" /\ pc[p] \in {"c_index", "c_commit"}
                /\ req[p].id = req[q].id )
              => pc'[q] = "d_begin"
      ]_vars

(* A delete of x has just been answered 200 while another delete of x,     *)
(* which the ownership check would have permitted, waits in begin_write.   *)
C31_Witness ==
    /\ out.op = "delete"
    /\ out.status = 200
    /\ ~Has(urls, out.id)
    /\ \E q \in Procs :
          /\ pc[q] = "d_begin"
          /\ req[q].id = out.id
          /\ OwnershipOk(out.record, req[q].ref_id)

(* C32: an identifier can be used again after its record is deleted.  The  *)
(* commit of a delete answered 200 leaves no entry of the identifier in    *)
(* the primary table or in any index value; a create that is granted the   *)
(* write transaction when the committed table lacks its identifier is not  *)
(* answered 409; and after the commit of a create answered 201 the record  *)
(* under the identifier is the one of that request, and every index value  *)
(* that carries the identifier is that record, not an older one.           *)
C32_ReuseAfterDelete ==
    [][\A p \in Procs :
         /\ ( /\ pc[p] = "d_commit" /\ pc'[p] = "idle"
              /\ out'.op = "delete" /\ out'.status = 200 )
            => /\ ~Has(urls', req[p].id)
               /\ \A k \in DOMAIN index' : index'[k].id # req[p].id
         /\ ( /\ pc[p] = "c_begin" /\ pc'[p] # "c_begin"
              /\ ~Has(urls, req[p].id) )
            => /\ pc'[p] = "c_index"
               /\ out'.status # 409
         /\ ( /\ pc[p] = "c_commit" /\ pc'[p] = "idle"
              /\ out'.op = "create" /\ out'.status = 201 )
            => /\ Has(urls', req[p].id)
               /\ urls'[req[p].id] = req[p].record
               /\ \A k \in DOMAIN index' :
                     index'[k].id = req[p].id => index'[k] = req[p].record
      ]_vars

(* The record under x has just been deleted (200) and a create of x with   *)
(* another owner or another created_at is about to ask for the write       *)
(* transaction.                                                            *)
C32_Witness ==
    /\ out.op = "delete"
    /\ out.status = 200
    /\ ~Has(urls, out.id)
    /\ \E q \in Procs :
          /\ pc[q] = "c_begin"
          /\ req[q].id = out.id
          /\ req[q].record.ref_id # out.record.ref_id
          /\ req[q].record.created_at # out.record.created_at

(* C33: the commit of a create of a record without ref_id adds exactly the *)
(* one entry to the primary table and leaves the index table as it was;    *)
(* the commit of the delete of such a record removes that entry and leaves *)
(* the index table as it was; and no index value, hence no record of a     *)
(* list with ref_id, is a record without ref_id.                           *)
C33_UnownedLeavesIndexAlone ==
    /\ [](\A k \in DOMAIN index : IsSome(index[k].ref_id))
    /\ []((out.op = "list" /\ IsSome(out.ref_id))
             => \A i \in 1..Len(out.data) : IsSome(out.data[i].ref_id))
    /\ [][/\ ( /\ out'.op = "create" /\ out'.status = 201
               /\ out'.record.ref_id = None )
             => /\ ~Has(urls, out'.id)
                /\ urls' = Insert(urls, out'.id, out'.record)
                /\ index' = index
          /\ ( /\ out'.op = "delete" /\ out'.status = 200
               /\ out'.record.ref_id = None )
             => /\ Has(urls, out'.id)
                /\ urls' = Remove(urls, out'.id)
                /\ index' = index
         ]_vars

(* A record without ref_id has just been deleted from a store that holds   *)
(* an owned record and its index entry.                                    *)
C33_Witness ==
    /\ out.op = "delete"
    /\ out.status = 200
    /\ out.record.ref_id = None
    /\ ~Has(urls, out.id)
    /\ index # EmptyTable
    /\ \E x \in DOMAIN urls : IsSome(urls[x].ref_id)

(* C34: for every page a request can carry, the offset (page - 1) * limit  *)
(* of the effective page and limit does not exceed the machine word: the   *)
(* list is answered, and when the offset is at or beyond the number of     *)
(* entries of the scanned range or table the page is empty.                *)
C34_OffsetNeverWraps ==
    [][\A r \in WordIn.lrefs, pg \in WordIn.pages, lm \in WordIn.limits :
          ListUrls(r, pg, lm)
              => LET n == IF IsSome(r)
                          THEN Len(Range(index, StartKey(Unwrap(r)), EndKey(Unwrap(r))))
                          ELSE Cardinality(DOMAIN urls)
                 IN /\ out'.op = "list"
                    /\ (EffPage(pg) - 1) * EffLimit(lm) <= UsizeMax
                    /\ (EffPage(pg) - 1) * EffLimit(lm) >= n => out'.data = <<>>]_vars

(* C35: in every committed state every record that a create stored has     *)
(* clicks = 0, under its identifier in the primary table and under its key *)
(* in the index table, and so has every record a redirect or a list read   *)
(* from them: nothing counts a click.                                      *)
C35_ClicksStayZero ==
    /\ \A x \in DOMAIN urls : urls[x].clicks = 0
    /\ \A k \in DOMAIN index : index[k].clicks = 0
    /\ (out.op = "redirect" /\ out.status = 307) => out.record.clicks = 0
    /\ out.op = "list" => \A i \in 1..Len(out.data) : out.data[i].clicks = 0

(* A redirect of an owned record has just been answered 307, and the       *)
(* record's primary and index entries still carry clicks = 0.              *)
C35_Witness ==
    /\ out.op = "redirect"
    /\ out.status = 307
    /\ Has(urls, out.id)
    /\ IsSome(urls[out.id].ref_id)
    /\ Has(index, RecordKey(urls[out.id]))
    /\ urls[out.id].clicks = 0
    /\ index[RecordKey(urls[out.id])].clicks = 0

====
